---------------------------- MODULE Spec2Model ----------------------------
(***************************************************************************)
(* Input-dispatch state machine of the Trivia Maze text controller          *)
(* (text_trivia_maze_controller.py) together with the part of the view      *)
(* (text_trivia_maze_view.py) and of the model interface                    *)
(* (trivia_maze_model.py) that the controller drives.                       *)
(*                                                                          *)
(* Text that the code transforms character by character (menu option        *)
(* labels, which InGameMenuCommandContext lower-cases) is a sequence of     *)
(* one-character strings.  Key symbols, item names, directions and context  *)
(* specifiers are only ever compared for equality and are TLA+ strings.     *)
(***************************************************************************)
EXTENDS Integers, Sequences, FiniteSets, TLC

VARIABLES
    active_context,          \* TextTriviaMazeController.__active_context
    shown,                   \* the view's windows that are currently visible
    main_menu_selection,     \* index highlighted in the main menu list box
    in_game_menu_selection,  \* index highlighted in the in-game menu list box
    running,                 \* FALSE once the view has quit the application
    calls,                   \* calls made by the operation that ran last, in order
    raised,                  \* TRUE iff the operation that ran last raised
    last_op,                 \* the operation that ran last
    last_key,                \* its argument: key, context specifier or game status
    prev_context,            \* active context when the last operation started
    prev_shown,              \* visible windows when the last operation started
    reported_option,         \* the option the view reported to the last menu handler
    classes,                 \* the context classes defined so far, in order
    last_definition,         \* the class statement executed last
    objects,                 \* the QuestionAndAnswer instances constructed
    invocation,              \* receiver and argument of the last method call
    returned,                \* what the last method call returned
    sampled                  \* what random.sample returned during that call

vars == << active_context, shown, main_menu_selection, in_game_menu_selection,
           running, calls, raised, last_op, last_key, prev_context,
           prev_shown, reported_option, classes, last_definition,
           objects, invocation, returned, sampled >>

\* the variables of the keystroke state machine
controller_vars ==
    << active_context, shown, main_menu_selection, in_game_menu_selection,
       running, calls, last_key, prev_context, prev_shown, reported_option >>

\* the variables of the class hierarchy
class_vars == << classes, last_definition >>

\* the variables of the question-and-answer objects
qa_vars == << objects, invocation, returned, sampled >>

---------------------------------------------------------------------------
(* Text and str.lower()                                                    *)

UpperCaseLetters == << "A","B","C","D","E","F","G","H","I","J","K","L","M",
                       "N","O","P","Q","R","S","T","U","V","W","X","Y","Z" >>

LowerCaseLetters == << "a","b","c","d","e","f","g","h","i","j","k","l","m",
                       "n","o","p","q","r","s","t","u","v","w","x","y","z" >>

LowerChar(c) ==
    IF \E i \in 1..Len(UpperCaseLetters) : UpperCaseLetters[i] = c
    THEN LowerCaseLetters[CHOOSE i \in 1..Len(UpperCaseLetters) :
                                UpperCaseLetters[i] = c]
    ELSE c

\* str.lower(): every cased character replaced by its lower-case form
Lower(s) == [i \in 1..Len(s) |-> LowerChar(s[i])]

NoText == << >>

---------------------------------------------------------------------------
(* Command tables                                                          *)

_COMMAND_TYPE_OTHER    == "other"
_COMMAND_TYPE_ITEM     == "item"
_COMMAND_TYPE_MOVEMENT == "movement"

\* A dict keeps insertion order, so a table is a sequence of entries.
Entry(c, t, d, k) == [command |-> c, type |-> t, description |-> d, key |-> k]

\* COMMANDS[command][_COMMAND_KEY_KEY]
KeyOf(table, c) ==
    table[CHOOSE i \in 1..Len(table) : table[i].command = c].key

\* the keys a table binds
TableKeys(table) == { table[i].key : i \in 1..Len(table) }

MenuCOMMANDS ==
    << Entry("SELECT", _COMMAND_TYPE_OTHER, "Select", "Return") >>

DismissibleCOMMANDS ==
    << Entry("DISMISS", _COMMAND_TYPE_OTHER, "Dismiss", "Return") >>

PrimaryInterfaceCOMMANDS ==
    << Entry("MOVE_EAST",  _COMMAND_TYPE_MOVEMENT, "Move east",  "Right"),
       Entry("MOVE_NORTH", _COMMAND_TYPE_MOVEMENT, "Move north", "Up"),
       Entry("MOVE_WEST",  _COMMAND_TYPE_MOVEMENT, "Move west",  "Left"),
       Entry("MOVE_SOUTH", _COMMAND_TYPE_MOVEMENT, "Move south", "Down"),
       Entry("USE_HEALING_POTION", _COMMAND_TYPE_ITEM, "Use healing potion", "h"),
       Entry("USE_VISION_POTION",  _COMMAND_TYPE_ITEM, "Use vision potion",  "v"),
       Entry("SHOW_IN_GAME_MENU",  _COMMAND_TYPE_OTHER, "Show in-game help menu",
             "Escape") >>

QuestionAndAnswerCOMMANDS ==
    << Entry("USE_SUGGESTION_POTION", _COMMAND_TYPE_ITEM,
             "Use suggestion potion", "s"),
       Entry("USE_MAGIC_KEY", _COMMAND_TYPE_ITEM, "Use magic key", "k") >>

\* The Command enumerations: the tags each class Command(Enum) declares.
MenuCommand == { "SELECT" }

DismissibleCommand == { "DISMISS" }

PrimaryInterfaceCommand ==
    { "MOVE_EAST", "MOVE_NORTH", "MOVE_WEST", "MOVE_SOUTH",
      "USE_HEALING_POTION", "USE_VISION_POTION",
      "SHOW_IN_GAME_MENU", "QUIT_GAME" }

QuestionAndAnswerCommand == { "USE_SUGGESTION_POTION", "USE_MAGIC_KEY" }

\* the commands a table has an entry for (the keys of the dict)
TableCommands(table) == { table[i].command : i \in 1..Len(table) }

---------------------------------------------------------------------------
(* Contexts                                                                *)

\* The nine context instances the controller creates, named by their class.
MainMenuCommandContext          == "MainMenuCommandContext"
MainHelpMenuCommandContext      == "MainHelpMenuCommandContext"
PrimaryInterfaceCommandContext  == "PrimaryInterfaceCommandContext"
InGameMenuCommandContext        == "InGameMenuCommandContext"
MapLegendCommandContext         == "MapLegendCommandContext"
CommandLegendCommandContext     == "CommandLegendCommandContext"
GameWonCommandContext           == "GameWonCommandContext"
GameLostCommandContext          == "GameLostCommandContext"
QuestionAndAnswerCommandContext == "QuestionAndAnswerCommandContext"

Contexts ==
    { MainMenuCommandContext, MainHelpMenuCommandContext,
      PrimaryInterfaceCommandContext, InGameMenuCommandContext,
      MapLegendCommandContext, CommandLegendCommandContext,
      GameWonCommandContext, GameLostCommandContext,
      QuestionAndAnswerCommandContext }

\* the class attribute COMMANDS each context class sees
COMMANDS(ctx) ==
    CASE ctx \in { MainMenuCommandContext, InGameMenuCommandContext }
           -> MenuCOMMANDS
      [] ctx = PrimaryInterfaceCommandContext  -> PrimaryInterfaceCOMMANDS
      [] ctx = QuestionAndAnswerCommandContext -> QuestionAndAnswerCOMMANDS
      [] OTHER -> DismissibleCOMMANDS

\* the Command enumeration each context class sees
Command(ctx) ==
    CASE ctx \in { MainMenuCommandContext, InGameMenuCommandContext }
           -> MenuCommand
      [] ctx = PrimaryInterfaceCommandContext  -> PrimaryInterfaceCommand
      [] ctx = QuestionAndAnswerCommandContext -> QuestionAndAnswerCommand
      [] OTHER -> DismissibleCommand

ContextSpecifiers ==
    { "main_menu", "main_help_menu", "primary_interface", "in_game_menu",
      "map_legend_menu", "command_legend_menu", "game_won_menu",
      "game_lost_menu", "question_and_answer" }

---------------------------------------------------------------------------
(* View: menus, pop-ups and their list boxes                               *)

StartGameOption == << "S","t","a","r","t"," ","g","a","m","e" >>
HelpOption      == << "H","e","l","p" >>
QuitGameOption  == << "Q","u","i","t"," ","g","a","m","e" >>

\* TextTriviaMazeView.__create_main_menu: the options of the main menu
MainMenuOptions == << StartGameOption, HelpOption, QuitGameOption >>

BackToGameOption       == << "B","a","c","k"," ","t","o"," ","G","a","m","e" >>
DisplayMapLegendOption == << "D","i","s","p","l","a","y"," ","M","a","p"," ","L","e","g","e","n","d" >>
DisplayCommandsOption  == << "D","i","s","p","l","a","y"," ","C","o","m","m","a","n","d","s" >>
ReturnToMainMenuOption == << "R","e","t","u","r","n"," ","t","o"," ","M","a","i","n"," ","M","e","n","u" >>
QuitGameInGameOption   == << "Q","u","i","t"," ","G","a","m","e" >>

\* The options the in-game menu can report as highlighted: the four the view
\* builds its menu from, and "Return to Main Menu", which the controller
\* also handles.
InGameMenuOptions ==
    << BackToGameOption, DisplayMapLegendOption, DisplayCommandsOption,
       ReturnToMainMenuOption, QuitGameInGameOption >>

\* TextMenu.selected_option: the option at the highlighted index
get_main_menu_current_selection(index) == MainMenuOptions[index]

get_in_game_menu_current_selection(index) == InGameMenuOptions[index]

\* windows the view can show over the map
Windows ==
    { "main_menu", "in_game_menu", "main_help_menu", "map_legend_menu",
      "command_legend_menu", "game_won_menu", "game_lost_menu" }

\* TextTriviaMazeView.__init__: won, lost and in-game menus hidden, main
\* menu shown; TextMenu.__init__ highlights the first option of each menu.
ViewInit ==
    [ shown |-> { "main_menu" }, main_menu_selection |-> 1,
      in_game_menu_selection |-> 1, running |-> TRUE ]

---------------------------------------------------------------------------
(* Calls a handler makes, and their effect                                  *)

Call(t, o, a) == [target |-> t, op |-> o, args |-> a]

ViewCall(o)      == Call("view", o, << >>)
ModelCall(o, a)  == Call("model", o, a)
SetContext(name) == Call("controller", "set_active_context", << name >>)

\* variant: the game-lost branch assigns the game-won context
set_active_context_lost_is_won(current, context_specifier) ==
    CASE context_specifier = "main_menu"           -> MainMenuCommandContext
      [] context_specifier = "main_help_menu"      -> MainHelpMenuCommandContext
      [] context_specifier = "primary_interface"   -> PrimaryInterfaceCommandContext
      [] context_specifier = "in_game_menu"        -> InGameMenuCommandContext
      [] context_specifier = "map_legend_menu"     -> MapLegendCommandContext
      [] context_specifier = "command_legend_menu" -> CommandLegendCommandContext
      [] context_specifier = "game_won_menu"       -> GameWonCommandContext
      [] context_specifier = "game_lost_menu"      -> GameWonCommandContext
      [] context_specifier = "question_and_answer" -> QuestionAndAnswerCommandContext
      [] OTHER -> current

\* TextTriviaMazeController.set_active_context: an unknown specifier falls
\* through every branch and leaves the reference as it was.
set_active_context(current, context_specifier) ==
    CASE context_specifier = "main_menu"           -> MainMenuCommandContext
      [] context_specifier = "main_help_menu"      -> MainHelpMenuCommandContext
      [] context_specifier = "primary_interface"   -> PrimaryInterfaceCommandContext
      [] context_specifier = "in_game_menu"        -> InGameMenuCommandContext
      [] context_specifier = "map_legend_menu"     -> MapLegendCommandContext
      [] context_specifier = "command_legend_menu" -> CommandLegendCommandContext
      [] context_specifier = "game_won_menu"       -> GameWonCommandContext
      [] context_specifier = "game_lost_menu"      -> GameLostCommandContext
      [] context_specifier = "question_and_answer" -> QuestionAndAnswerCommandContext
      [] OTHER -> current

\* whether set_active_context raises: the if/elif chain has no else branch
\* and no branch raises
set_active_context_raises(context_specifier) == FALSE

\* MainMenu.show / InGameMenu.show: display the frame and highlight the
\* first option.
show_main_menu(st) ==
    [st EXCEPT !.shown = @ \cup { "main_menu" }, !.main_menu_selection = 1]

hide_main_menu(st) == [st EXCEPT !.shown = @ \ { "main_menu" }]

show_in_game_menu(st) ==
    [st EXCEPT !.shown = @ \cup { "in_game_menu" },
               !.in_game_menu_selection = 1]

hide_in_game_menu(st) == [st EXCEPT !.shown = @ \ { "in_game_menu" }]

\* DismissiblePopUp.show / hide: the game-won and game-lost pop-ups
show_pop_up(st, w) == [st EXCEPT !.shown = @ \cup { w }]

hide_pop_up(st, w) == [st EXCEPT !.shown = @ \ { w }]

\* the help, map legend and command legend pop-ups: shown over whatever is
\* on screen, hidden on their own
show_main_help_menu(st) == [st EXCEPT !.shown = @ \cup { "main_help_menu" }]

hide_main_help_menu(st) == [st EXCEPT !.shown = @ \ { "main_help_menu" }]

show_map_legend_menu(st) == [st EXCEPT !.shown = @ \cup { "map_legend_menu" }]

hide_map_legend_menu(st) == [st EXCEPT !.shown = @ \ { "map_legend_menu" }]

show_command_legend_menu(st) ==
    [st EXCEPT !.shown = @ \cup { "command_legend_menu" }]

hide_command_legend_menu(st) ==
    [st EXCEPT !.shown = @ \ { "command_legend_menu" }]

\* quit_entire_game: the window is closed and no further key arrives
quit_entire_game(st) == [st EXCEPT !.running = FALSE]

\* the state after one call
Effect(st, c) ==
    CASE c.target = "controller" ->
           [st EXCEPT !.active = set_active_context(@, c.args[1])]
      [] c.target = "model" -> st
      [] c.op = "show_main_menu"    -> show_main_menu(st)
      [] c.op = "hide_main_menu"    -> hide_main_menu(st)
      [] c.op = "show_in_game_menu" -> show_in_game_menu(st)
      [] c.op = "hide_in_game_menu" -> hide_in_game_menu(st)
      [] c.op = "show_main_help_menu"      -> show_main_help_menu(st)
      [] c.op = "hide_main_help_menu"      -> hide_main_help_menu(st)
      [] c.op = "show_map_legend_menu"     -> show_map_legend_menu(st)
      [] c.op = "hide_map_legend_menu"     -> hide_map_legend_menu(st)
      [] c.op = "show_command_legend_menu" -> show_command_legend_menu(st)
      [] c.op = "hide_command_legend_menu" -> hide_command_legend_menu(st)
      [] c.op = "show_game_won_menu"       -> show_pop_up(st, "game_won_menu")
      [] c.op = "hide_game_won_menu"       -> hide_pop_up(st, "game_won_menu")
      [] c.op = "show_game_lost_menu"      -> show_pop_up(st, "game_lost_menu")
      [] c.op = "hide_game_lost_menu"      -> hide_pop_up(st, "game_lost_menu")
      [] c.op = "quit_entire_game"         -> quit_entire_game(st)

\* the state after the calls cs, made in order
RECURSIVE Run(_, _)
Run(st, cs) == IF cs = << >> THEN st ELSE Run(Effect(st, Head(cs)), Tail(cs))

---------------------------------------------------------------------------
(* Command contexts: process_keystroke of each context class.  A handler   *)
(* yields the option the view reported (NoText if none was read) and the   *)
(* calls it makes, in order.                                                *)

Handled(reported, cs) == [reported_option |-> reported, steps |-> cs]

Ignored == Handled(NoText, << >>)

\* string literals the menu handlers compare the selection with
Str_START_GAME == << "S","t","a","r","t"," ","g","a","m","e" >>

Str_HELP == << "H","e","l","p" >>

Str_QUIT_GAME == << "Q","u","i","t"," ","g","a","m","e" >>

Str_back_to_game == << "b","a","c","k"," ","t","o"," ","g","a","m","e" >>

Str_display_map_legend == << "d","i","s","p","l","a","y"," ","m","a","p"," ","l","e","g","e","n","d" >>

Str_display_commands == << "d","i","s","p","l","a","y"," ","c","o","m","m","a","n","d","s" >>

Str_return_to_main_menu == << "r","e","t","u","r","n"," ","t","o"," ","m","a","i","n"," ","m","e","n","u" >>

Str_quit_game == << "q","u","i","t"," ","g","a","m","e" >>

\* variant: "Start game" hides the menu but forgets to switch context
MainMenu_start_game_no_switch == << ViewCall("hide_main_menu") >>

\* variant: "Help" shows the help pop-up but leaves the main menu active
MainMenu_help_no_switch == << ViewCall("show_main_help_menu") >>

\* variant: "Start game" switches context and leaves the menu on screen
MainMenu_start_game_no_hide == << SetContext("primary_interface") >>

\* the branches of MainMenuCommandContext.process_keystroke
MainMenu_start_game ==
    << ViewCall("hide_main_menu"), SetContext("primary_interface") >>

MainMenu_help ==
    << ViewCall("show_main_help_menu"), SetContext("main_help_menu") >>

MainMenu_quit_game == << ViewCall("quit_entire_game") >>

MainMenu_process_keystroke(key, selection) ==
    IF key # KeyOf(COMMANDS(MainMenuCommandContext), "SELECT")
    THEN Ignored
    ELSE LET selected_option == get_main_menu_current_selection(selection) IN
         Handled(selected_option,
            CASE selected_option = Str_START_GAME -> MainMenu_start_game
              [] selected_option = Str_HELP       -> MainMenu_help
              [] selected_option = Str_QUIT_GAME  -> MainMenu_quit_game
              [] OTHER -> << >>)

\* the (symbols, descriptions) tuples built from
\* PrimaryInterfaceCommandContext.COMMANDS.values()
LegendSymbols ==
    [i \in 1..Len(PrimaryInterfaceCOMMANDS) |-> PrimaryInterfaceCOMMANDS[i].key]

\* variant: the descriptions are read from the "key" field as well
LegendDescriptions_from_key ==
    [i \in 1..Len(PrimaryInterfaceCOMMANDS) |-> PrimaryInterfaceCOMMANDS[i].key]

LegendDescriptions ==
    [i \in 1..Len(PrimaryInterfaceCOMMANDS) |->
        PrimaryInterfaceCOMMANDS[i].description]

\* variant: "Back to Game" switches context but leaves the menu on screen
InGameMenu_back_to_game_no_hide == << SetContext("primary_interface") >>

\* variant: "Display Map Legend" hides the in-game menu before the legend
InGameMenu_display_map_legend_hiding ==
    << ViewCall("hide_in_game_menu"), ViewCall("show_map_legend_menu"),
       SetContext("map_legend_menu") >>

\* variant: the maze is reset only after the menus have been swapped
InGameMenu_return_to_main_menu_reset_last ==
    << ViewCall("hide_in_game_menu"),
       ViewCall("show_main_menu"),
       ModelCall("reset", << >>),
       SetContext("main_menu") >>

\* the branches of InGameMenuCommandContext.process_keystroke
InGameMenu_back_to_game ==
    << ViewCall("hide_in_game_menu"), SetContext("primary_interface") >>

InGameMenu_display_map_legend ==
    << ViewCall("show_map_legend_menu"), SetContext("map_legend_menu") >>

InGameMenu_display_commands ==
    << Call("view", "show_command_legend_menu",
            << LegendSymbols, LegendDescriptions, 2 >>),
       SetContext("command_legend_menu") >>

InGameMenu_return_to_main_menu ==
    << ModelCall("reset", << >>),
       ViewCall("hide_in_game_menu"),
       ViewCall("show_main_menu"),
       SetContext("main_menu") >>

\* variant: "Quit Game" resets the maze before it quits
InGameMenu_quit_game_resetting ==
    << ModelCall("reset", << >>), ViewCall("quit_entire_game") >>

InGameMenu_quit_game == << ViewCall("quit_entire_game") >>

InGameMenu_process_keystroke(key, selection) ==
    IF key # KeyOf(COMMANDS(InGameMenuCommandContext), "SELECT")
    THEN Ignored
    ELSE LET reported == get_in_game_menu_current_selection(selection)
             selected_option == Lower(reported)
         IN
         Handled(reported,
            CASE selected_option = Str_back_to_game
                   -> InGameMenu_back_to_game
              [] selected_option = Str_display_map_legend
                   -> InGameMenu_display_map_legend
              [] selected_option = Str_display_commands
                   -> InGameMenu_display_commands
              [] selected_option = Str_return_to_main_menu
                   -> InGameMenu_return_to_main_menu
              [] selected_option = Str_quit_game
                   -> InGameMenu_quit_game
              [] OTHER -> << >>)

\* variant: a dismissible pop-up that closes on any key
Dismiss_on_any_key(ctx, key, hide, next) ==
    Handled(NoText, << ViewCall(hide), SetContext(next) >>)

\* the five dismissible contexts differ in the pop-up they hide and in the
\* context they hand over to
Dismiss(ctx, key, hide, next) ==
    IF key = KeyOf(COMMANDS(ctx), "DISMISS")
    THEN Handled(NoText, << ViewCall(hide), SetContext(next) >>)
    ELSE Ignored

MainHelpMenu_process_keystroke(key) ==
    Dismiss(MainHelpMenuCommandContext, key, "hide_main_help_menu", "main_menu")

\* variant: dismissing the map legend returns to the main menu
MapLegend_process_keystroke_to_main_menu(key) ==
    Dismiss(MapLegendCommandContext, key, "hide_map_legend_menu", "main_menu")

MapLegend_process_keystroke(key) ==
    Dismiss(MapLegendCommandContext, key, "hide_map_legend_menu", "in_game_menu")

CommandLegend_process_keystroke(key) ==
    Dismiss(CommandLegendCommandContext, key, "hide_command_legend_menu",
            "in_game_menu")

GameWon_process_keystroke(key) ==
    Dismiss(GameWonCommandContext, key, "hide_game_won_menu", "main_menu")

GameLost_process_keystroke(key) ==
    Dismiss(GameLostCommandContext, key, "hide_game_lost_menu", "main_menu")

\* COMMANDS[Command.c][_COMMAND_KEY_KEY] in PrimaryInterfaceCommandContext
PrimaryKey(c) == KeyOf(COMMANDS(PrimaryInterfaceCommandContext), c)

\* variant: Escape switches context without showing the in-game menu
PrimaryInterface_show_in_game_menu_no_show ==
    << SetContext("in_game_menu") >>

\* variant: the Left and Right keys are bound to the opposite directions
PrimaryInterface_movement_swapped(key) ==
    IF key = PrimaryKey("MOVE_WEST")
    THEN << ModelCall("move_adventurer", << "east" >>) >>
    ELSE IF key = PrimaryKey("MOVE_EAST")
    THEN << ModelCall("move_adventurer", << "west" >>) >>
    ELSE IF key = PrimaryKey("MOVE_NORTH")
    THEN << ModelCall("move_adventurer", << "north" >>) >>
    ELSE IF key = PrimaryKey("MOVE_SOUTH")
    THEN << ModelCall("move_adventurer", << "south" >>) >>
    ELSE << >>

\* the branches of PrimaryInterfaceCommandContext.process_keystroke
PrimaryInterface_show_in_game_menu ==
    << ViewCall("show_in_game_menu"), SetContext("in_game_menu") >>

PrimaryInterface_use_healing_potion ==
    << ModelCall("use_item", << "healing potion" >>) >>

PrimaryInterface_use_vision_potion ==
    << ModelCall("use_item", << "vision potion" >>) >>

PrimaryInterface_movement(key) ==
    IF key = PrimaryKey("MOVE_WEST")
    THEN << ModelCall("move_adventurer", << "west" >>) >>
    ELSE IF key = PrimaryKey("MOVE_EAST")
    THEN << ModelCall("move_adventurer", << "east" >>) >>
    ELSE IF key = PrimaryKey("MOVE_NORTH")
    THEN << ModelCall("move_adventurer", << "north" >>) >>
    ELSE IF key = PrimaryKey("MOVE_SOUTH")
    THEN << ModelCall("move_adventurer", << "south" >>) >>
    ELSE << >>

PrimaryInterface_process_keystroke(key) ==
    Handled(NoText,
       IF key = PrimaryKey("SHOW_IN_GAME_MENU")
       THEN PrimaryInterface_show_in_game_menu
       ELSE IF key = PrimaryKey("USE_HEALING_POTION")
       THEN PrimaryInterface_use_healing_potion
       ELSE IF key = PrimaryKey("USE_VISION_POTION")
       THEN PrimaryInterface_use_vision_potion
       ELSE PrimaryInterface_movement(key))

\* variant: the two item keys of the question pop-up are exchanged
QuestionAndAnswer_process_keystroke_swapped(key) ==
    LET K(c) == KeyOf(COMMANDS(QuestionAndAnswerCommandContext), c) IN
    Handled(NoText,
       IF key = K("USE_MAGIC_KEY")
       THEN << ModelCall("use_item", << "suggestion potion" >>) >>
       ELSE IF key = K("USE_SUGGESTION_POTION")
       THEN << ModelCall("use_item", << "magic key" >>) >>
       ELSE << >>)

\* the Return branch of QuestionAndAnswerCommandContext.process_keystroke:
\* a FIXME comment and `pass`
QuestionAndAnswer_return == << >>

QuestionAndAnswer_process_keystroke(key) ==
    LET K(c) == KeyOf(COMMANDS(QuestionAndAnswerCommandContext), c) IN
    Handled(NoText,
       IF key = K("USE_MAGIC_KEY")
       THEN << ModelCall("use_item", << "magic key" >>) >>
       ELSE IF key = K("USE_SUGGESTION_POTION")
       THEN << ModelCall("use_item", << "suggestion potion" >>) >>
       ELSE IF key = "Return"
       THEN QuestionAndAnswer_return
       ELSE << >>)

\* variant: every key goes to the game screen's context, whatever context
\* is active
process_keystroke_to_primary(ctx, key, main_selection, in_game_selection) ==
    PrimaryInterface_process_keystroke(key)

\* TextTriviaMazeController.process_keystroke: the key goes to the handler
\* of the active context, with the highlights the view would report
process_keystroke(ctx, key, main_selection, in_game_selection) ==
    CASE ctx = MainMenuCommandContext
           -> MainMenu_process_keystroke(key, main_selection)
      [] ctx = MainHelpMenuCommandContext
           -> MainHelpMenu_process_keystroke(key)
      [] ctx = PrimaryInterfaceCommandContext
           -> PrimaryInterface_process_keystroke(key)
      [] ctx = InGameMenuCommandContext
           -> InGameMenu_process_keystroke(key, in_game_selection)
      [] ctx = MapLegendCommandContext
           -> MapLegend_process_keystroke(key)
      [] ctx = CommandLegendCommandContext
           -> CommandLegend_process_keystroke(key)
      [] ctx = GameWonCommandContext
           -> GameWon_process_keystroke(key)
      [] ctx = GameLostCommandContext
           -> GameLost_process_keystroke(key)
      [] ctx = QuestionAndAnswerCommandContext
           -> QuestionAndAnswer_process_keystroke(key)

---------------------------------------------------------------------------
(* The class hierarchy of contexts and CommandContext.__init_subclass__     *)

\* number of context classes defined in addition to those of the module
MaxNewClasses == 2

\* what a class body says about COMMANDS: nothing, or a table
NoCOMMANDS == [declared |-> FALSE, table |-> << >>]

Declares(table) == [declared |-> TRUE, table |-> table]

\* a class statement: its name, its base (position in the list of classes,
\* 0 for the bases outside the hierarchy) and the COMMANDS of its body
Class(n, b, o) == [name |-> n, base |-> b, own |-> o]

\* the class statements of the controller module, in order
ModuleClasses ==
    << Class("CommandContext", 0, NoCOMMANDS),
       Class("MenuCommandContext", 1, Declares(MenuCOMMANDS)),
       Class(MainMenuCommandContext, 2, NoCOMMANDS),
       Class(InGameMenuCommandContext, 2, NoCOMMANDS),
       Class("DismissibleCommandContext", 1, Declares(DismissibleCOMMANDS)),
       Class(MainHelpMenuCommandContext, 5, NoCOMMANDS),
       Class(MapLegendCommandContext, 5, NoCOMMANDS),
       Class(CommandLegendCommandContext, 5, NoCOMMANDS),
       Class(GameWonCommandContext, 5, NoCOMMANDS),
       Class(GameLostCommandContext, 5, NoCOMMANDS),
       Class(PrimaryInterfaceCommandContext, 1,
             Declares(PrimaryInterfaceCOMMANDS)),
       Class(QuestionAndAnswerCommandContext, 1,
             Declares(QuestionAndAnswerCOMMANDS)) >>

\* class bodies a new context class may have: no COMMANDS, COMMANDS = {},
\* or a table with an entry
ClassBodies == { NoCOMMANDS, Declares(<< >>), Declares(MenuCOMMANDS) }

\* attribute lookup of COMMANDS along the bases of a class with body own
\* and base b: the nearest declaration, NoCOMMANDS if there is none
RECURSIVE LookupCOMMANDS(_, _, _)
LookupCOMMANDS(cls, b, own) ==
    IF own.declared THEN own
    ELSE IF b = 0 THEN NoCOMMANDS
    ELSE LookupCOMMANDS(cls, cls[b].base, cls[b].own)

\* hasattr(cls, "COMMANDS")
hasattr_COMMANDS(cls, b, own) == LookupCOMMANDS(cls, b, own).declared

\* variant: the check is left out and every subclass is accepted
init_subclass_raises_never(cls, b, own) == FALSE

\* CommandContext.__init_subclass__: TypeError iff the new class has no
\* COMMANDS attribute
init_subclass_raises(cls, b, own) == ~ hasattr_COMMANDS(cls, b, own)

---------------------------------------------------------------------------
(* The question-and-answer hierarchy (question_and_answer.py)              *)

\* longest correct answer of a short-answer question, and longest answer a
\* user gives
MaxLen == 4
MaxAnswerLen == 1

\* the characters texts are made of: a cased letter in both cases, and a blank
Alphabet == { "a", "A", " " }

\* all texts of at most n characters
Texts(n) == UNION { [1..k -> Alphabet] : k \in 0..n }

\* "true"
Text_true == << "t","r","u","e" >>

\* the spellings of the two truth values a question bank uses
TruthTexts ==
    { Text_true, << "T","r","u","e" >>, << "T","R","U","E" >>,
      << "f","a","l","s","e" >>, << "F","a","l","s","e" >> }

\* the characters str.split() separates words at
Whitespace == { " ", "\t", "\n", "\r", "\f" }

\* length of the run of non-whitespace characters a non-empty text starts with
WordEnd(s) ==
    CHOOSE n \in 0..Len(s) :
        /\ \A i \in 1..n : s[i] \notin Whitespace
        /\ n = Len(s) \/ s[n + 1] \in Whitespace

\* str.split(): the maximal runs of non-whitespace characters, in order
RECURSIVE split(_)
split(s) ==
    IF s = << >> THEN << >>
    ELSE IF Head(s) \in Whitespace THEN split(Tail(s))
    ELSE << SubSeq(s, 1, WordEnd(s)) >>
            \o split(SubSeq(s, WordEnd(s) + 1, Len(s)))

\* variant: the truth value is read off the text without lower-casing it
TrueOrFalseQA_is_true_exact(correct_answer) == correct_answer = Text_true

\* TrueOrFalseQA.__init__: self.is_true
TrueOrFalseQA_is_true(correct_answer) == Lower(correct_answer) = Text_true

\* TrueOrFalseQA.__init__
TrueOrFalseQA_init(question, correct_answer, category, option_1, option_2) ==
    [ class |-> "TrueOrFalseQA",
      question |-> question, correct_answer |-> correct_answer,
      category |-> category, option_1 |-> option_1, option_2 |-> option_2,
      is_true |-> TrueOrFalseQA_is_true(correct_answer) ]

\* MultipleChoiceQA.__init__
MultipleChoiceQA_init(question, correct_answer, category, option_1, option_2, option_3, option_4) ==
    [ class |-> "MultipleChoiceQA",
      question |-> question, correct_answer |-> correct_answer,
      category |-> category, option_1 |-> option_1, option_2 |-> option_2,
      option_3 |-> option_3, option_4 |-> option_4 ]

\* ShortAnswerQA has no __init__ of its own: QuestionAndAnswer.__init__
ShortAnswerQA_init(question, correct_answer, category) ==
    [ class |-> "ShortAnswerQA",
      question |-> question, correct_answer |-> correct_answer,
      category |-> category ]

\* variant: the answers are compared as they are
ShortAnswerQA_answer_is_correct_exact(self, user_answer) ==
    user_answer = self.correct_answer

\* TrueOrFalseQA.answer_is_correct
TrueOrFalseQA_answer_is_correct(self, user_answer) ==
    Lower(user_answer) = Lower(self.correct_answer)

\* MultipleChoiceQA.answer_is_correct
MultipleChoiceQA_answer_is_correct(self, user_answer) ==
    Lower(user_answer) = Lower(self.correct_answer)

\* ShortAnswerQA.answer_is_correct
ShortAnswerQA_answer_is_correct(self, user_answer) ==
    Lower(user_answer) = Lower(self.correct_answer)

\* self.answer_is_correct(user_answer): the method of self's class
answer_is_correct(self, user_answer) ==
    CASE self.class = "TrueOrFalseQA"
           -> TrueOrFalseQA_answer_is_correct(self, user_answer)
      [] self.class = "MultipleChoiceQA"
           -> MultipleChoiceQA_answer_is_correct(self, user_answer)
      [] self.class = "ShortAnswerQA"
           -> ShortAnswerQA_answer_is_correct(self, user_answer)

\* "The correct answer is NOT one of the following choices: \n"
MultipleChoiceHintHeader ==
    <<
       "T", "h", "e", " ", "c", "o", "r", "r", "e", "c", "t", " ", "a",
       "n", "s", "w", "e", "r", " ", "i", "s", " ", "N", "O", "T", " ",
       "o", "n", "e", " ", "o", "f", " ", "t", "h", "e", " ", "f", "o",
       "l", "l", "o", "w", "i", "n", "g", " ", "c", "h", "o", "i", "c",
       "e", "s", ":", " ", "\n" >>

\* MultipleChoiceQA.get_hint: the options that are not the correct answer,
\* in declared order
incorrect_options(self) ==
    SelectSeq(<< self.option_1, self.option_2, self.option_3, self.option_4 >>,
              LAMBDA o : o # self.correct_answer)

\* variant: three incorrect options are asked for
MultipleChoiceQA_get_hint_raises_below_three(self) ==
    Len(incorrect_options(self)) < 3

\* MultipleChoiceQA.get_hint raises IndexError when incorrect_options[0] or
\* incorrect_options[1] does not exist
MultipleChoiceQA_get_hint_raises(self) == Len(incorrect_options(self)) < 2

\* variant: the last two of the incorrect options are named
MultipleChoiceQA_get_hint_last_two(self) ==
    MultipleChoiceHintHeader
        \o << "-", " " >>
        \o incorrect_options(self)[Len(incorrect_options(self)) - 1]
        \o << "\n" >>
        \o << "-", " " >>
        \o incorrect_options(self)[Len(incorrect_options(self))]
        \o << "\n" >>

\* MultipleChoiceQA.get_hint, when it does not raise: "- " and a line feed
\* around each of the two options
MultipleChoiceQA_get_hint(self) ==
    MultipleChoiceHintHeader
        \o << "-", " " >> \o incorrect_options(self)[1] \o << "\n" >>
        \o << "-", " " >> \o incorrect_options(self)[2] \o << "\n" >>

\* "Hint: "
ShortAnswerHintPrefix == << "H", "i", "n", "t", ":", " " >>

\* variant: half the letters, rounded down
num_letters_to_show_floor(length) == length \div 2

\* ShortAnswerQA.get_hint: num_letters_to_show of a word of that length
num_letters_to_show(length) ==
    IF length % 2 = 0 THEN length \div 2 ELSE length \div 2 + 1

\* random.sample(range(length), k): the lists it can return, k distinct
\* indices in any order
random_sample(length, k) ==
    { s \in [1..k -> 0..(length - 1)] :
        \A i, j \in 1..k : i # j => s[i] # s[j] }

\* list.sort() of a list of distinct numbers
sort(s) ==
    [ i \in 1..Len(s) |->
        CHOOSE x \in { s[j] : j \in 1..Len(s) } :
            Cardinality({ j \in 1..Len(s) : s[j] < x }) = i - 1 ]

\* variant: a blank before every letter but a word's first
reveal_spaced(word, indices, prev_index) ==
    [ n \in 1..(2 * Len(indices) - 1) |->
        IF n % 2 = 1 THEN word[indices[(n + 1) \div 2] + 1] ELSE " " ]

\* ShortAnswerQA.get_hint, the inner loop: the letters of word at indices,
\* a blank before each that does not follow prev_index
RECURSIVE reveal(_, _, _)
reveal(word, indices, prev_index) ==
    IF indices = << >> THEN << >>
    ELSE (IF prev_index + 1 # Head(indices) THEN << " " >> ELSE << >>)
            \o << word[Head(indices) + 1] >>
            \o reveal(word, Tail(indices), Head(indices))

\* ShortAnswerQA.get_hint, the outer loop from word i on; samples[i] is what
\* random.sample returns for word i
RECURSIVE reveal_words(_, _, _)
reveal_words(words, samples, i) ==
    IF i > Len(words) THEN << >>
    ELSE reveal(words[i], sort(samples[i]), -1)
            \o (IF i < Len(words) THEN << " " >> ELSE << >>)
            \o reveal_words(words, samples, i + 1)

\* ShortAnswerQA.get_hint
ShortAnswerQA_get_hint(self, samples) ==
    ShortAnswerHintPrefix
        \o reveal_words(split(self.correct_answer), samples, 1)

\* what random.sample can return during one call of ShortAnswerQA.get_hint:
\* one list for each word
Samples(self) ==
    LET words == split(self.correct_answer)
        lists == UNION { random_sample(Len(words[i]),
                                       num_letters_to_show(Len(words[i]))) :
                         i \in 1..Len(words) }
    IN  { samples \in [1..Len(words) -> lists] :
            \A i \in 1..Len(words) :
                samples[i] \in random_sample(Len(words[i]),
                                  num_letters_to_show(Len(words[i]))) }

\* __hash__ of each class: the tuple that is hashed stands for its hash
TrueOrFalseQA_hash(self) ==
    << self.question, self.correct_answer, self.category, self.is_true >>

MultipleChoiceQA_hash(self) ==
    << self.question, self.correct_answer, self.category,
       self.option_1, self.option_2, self.option_3, self.option_4 >>

ShortAnswerQA_hash(self) ==
    << self.question, self.correct_answer, self.category >>

\* hash(self): the method of self's class
hash(self) ==
    CASE self.class = "TrueOrFalseQA"    -> TrueOrFalseQA_hash(self)
      [] self.class = "MultipleChoiceQA" -> MultipleChoiceQA_hash(self)
      [] self.class = "ShortAnswerQA"    -> ShortAnswerQA_hash(self)

\* a == b for the instances at positions i and j of objects: no class of the
\* hierarchy defines __eq__, so it is object.__eq__, which compares identity
object_eq(i, j) == i = j

---------------------------------------------------------------------------
(* The controller                                                          *)

\* key symbols the view forwards: every bound key, and two unbound ones
Keys ==
    { "Return", "Escape", "Left", "Right", "Up", "Down",
      "h", "v", "s", "k", "q", "H" }

\* a specifier outside the closed set
UnknownSpecifier == "settings_menu"

\* variant: the constructor activates the game screen instead of the menu
InitialContextSpecifier_primary == "primary_interface"

\* the specifier TextTriviaMazeController.__init__ activates
InitialContextSpecifier == "main_menu"

\* TriviaMazeModelObserver.__init__ as the controller module defines it:
\* it binds the model and calls nothing
TriviaMazeModelObserver_init == << >>

\* TriviaMazeModelObserver.__init__ of trivia_maze_model_observer.py, which
\* the controller module does not import: it also registers with the model
TriviaMazeModelObserver_init_registering ==
    << ModelCall("register_observer", << "self" >>) >>

\* TextTriviaMazeController.__init__: super().__init__, the view and the
\* nine contexts are created, then the first context is activated
TextTriviaMazeController_init ==
    TriviaMazeModelObserver_init \o << SetContext(InitialContextSpecifier) >>

\* the controller after construction, the classes after the module is loaded
InitController ==
    /\ active_context =
          Run([ active |-> "unset", shown |-> ViewInit.shown,
                main_menu_selection |-> ViewInit.main_menu_selection,
                in_game_menu_selection |-> ViewInit.in_game_menu_selection,
                running |-> ViewInit.running ],
              TextTriviaMazeController_init).active
    /\ shown = ViewInit.shown
    /\ main_menu_selection = ViewInit.main_menu_selection
    /\ in_game_menu_selection = ViewInit.in_game_menu_selection
    /\ running = ViewInit.running
    /\ calls = TextTriviaMazeController_init
    /\ raised = FALSE
    /\ last_op = "__init__"
    /\ last_key = InitialContextSpecifier
    /\ prev_context = "unset"
    /\ prev_shown = {}
    /\ reported_option = NoText
    /\ classes = ModuleClasses
    /\ last_definition =
          [ base |-> ModuleClasses[Len(ModuleClasses)].base,
            own  |-> ModuleClasses[Len(ModuleClasses)].own ]

\* no method of a question has been called
NoInvocation == [ self |-> 0, argument |-> NoText ]

\* the controller constructs no question (the model does)
Init ==
    /\ InitController
    /\ objects = << >>
    /\ invocation = NoInvocation
    /\ returned = NoText
    /\ sampled = << >>

\* variant: when the handler has switched context, the key is handed to the
\* newly active context as well
Handle_reprocessing(key) ==
    /\ running
    /\ LET st0 == [ active |-> active_context, shown |-> shown,
                    main_menu_selection |-> main_menu_selection,
                    in_game_menu_selection |-> in_game_menu_selection,
                    running |-> running ]
           h   == process_keystroke(active_context, key, main_menu_selection,
                                    in_game_menu_selection)
           st1 == Run(st0, h.steps)
           h2  == IF st1.active = active_context THEN Ignored
                  ELSE process_keystroke(st1.active, key,
                                         st1.main_menu_selection,
                                         st1.in_game_menu_selection)
           st  == Run(st1, h2.steps)
       IN  /\ active_context' = st.active
           /\ shown' = st.shown
           /\ main_menu_selection' = st.main_menu_selection
           /\ in_game_menu_selection' = st.in_game_menu_selection
           /\ running' = st.running
           /\ calls' = h.steps \o h2.steps
           /\ reported_option' = h.reported_option
    /\ raised' = FALSE
    /\ last_op' = "process_keystroke"
    /\ last_key' = key
    /\ prev_context' = active_context
    /\ prev_shown' = shown
    /\ UNCHANGED << class_vars, qa_vars >>

\* TextTriviaMazeController.process_keystroke: the active context handles
\* the key; h is what its handler yields.
Handle(key) ==
    /\ running
    /\ LET h  == process_keystroke(active_context, key, main_menu_selection,
                                   in_game_menu_selection)
           st == Run([ active |-> active_context, shown |-> shown,
                       main_menu_selection |-> main_menu_selection,
                       in_game_menu_selection |-> in_game_menu_selection,
                       running |-> running ], h.steps)
       IN  /\ active_context' = st.active
           /\ shown' = st.shown
           /\ main_menu_selection' = st.main_menu_selection
           /\ in_game_menu_selection' = st.in_game_menu_selection
           /\ running' = st.running
           /\ calls' = h.steps
           /\ reported_option' = h.reported_option
    /\ raised' = FALSE
    /\ last_op' = "process_keystroke"
    /\ last_key' = key
    /\ prev_context' = active_context
    /\ prev_shown' = shown
    /\ UNCHANGED << class_vars, qa_vars >>

MainMenuKeystroke(key) ==
    /\ active_context = MainMenuCommandContext
    /\ Handle(key)

MainHelpMenuKeystroke(key) ==
    /\ active_context = MainHelpMenuCommandContext
    /\ Handle(key)

PrimaryInterfaceKeystroke(key) ==
    /\ active_context = PrimaryInterfaceCommandContext
    /\ Handle(key)

InGameMenuKeystroke(key) ==
    /\ active_context = InGameMenuCommandContext
    /\ Handle(key)

MapLegendKeystroke(key) ==
    /\ active_context = MapLegendCommandContext
    /\ Handle(key)

CommandLegendKeystroke(key) ==
    /\ active_context = CommandLegendCommandContext
    /\ Handle(key)

GameWonKeystroke(key) ==
    /\ active_context = GameWonCommandContext
    /\ Handle(key)

GameLostKeystroke(key) ==
    /\ active_context = GameLostCommandContext
    /\ Handle(key)

QuestionAndAnswerKeystroke(key) ==
    /\ active_context = QuestionAndAnswerCommandContext
    /\ Handle(key)

\* set_active_context called from outside the contexts (it is public)
SetActiveContext(context_specifier) ==
    /\ running
    /\ active_context' = set_active_context(active_context, context_specifier)
    /\ calls' = << >>
    /\ raised' = set_active_context_raises(context_specifier)
    /\ last_op' = "set_active_context"
    /\ last_key' = context_specifier
    /\ prev_context' = active_context
    /\ prev_shown' = shown
    /\ reported_option' = NoText
    /\ UNCHANGED << shown, main_menu_selection, in_game_menu_selection,
                    running, class_vars, qa_vars >>

\* what the game status has just become when the model notifies its
\* observers: won, lost, or no change of outcome
GameStatuses == { "win", "lose", "unchanged" }

\* variant: the commented-out lines of update are in force and a won or
\* lost game opens its pop-up
update_showing_outcome(game_status) ==
    CASE game_status = "win"
           -> << ViewCall("show_game_won_menu"), SetContext("game_won_menu") >>
      [] game_status = "lose"
           -> << ViewCall("show_game_lost_menu"),
                 SetContext("game_lost_menu") >>
      [] OTHER -> << >>

\* TextTriviaMazeController.update: the status is not read (the lines that
\* would are commented out) and the body is `pass`
update(game_status) == << >>

\* the model notifies the controller
Update(game_status) ==
    /\ running
    /\ LET cs == update(game_status)
           st == Run([ active |-> active_context, shown |-> shown,
                       main_menu_selection |-> main_menu_selection,
                       in_game_menu_selection |-> in_game_menu_selection,
                       running |-> running ], cs)
       IN  /\ active_context' = st.active
           /\ shown' = st.shown
           /\ main_menu_selection' = st.main_menu_selection
           /\ in_game_menu_selection' = st.in_game_menu_selection
           /\ running' = st.running
           /\ calls' = cs
    /\ raised' = FALSE
    /\ last_op' = "update"
    /\ last_key' = game_status
    /\ prev_context' = active_context
    /\ prev_shown' = shown
    /\ reported_option' = NoText
    /\ UNCHANGED << class_vars, qa_vars >>

\* the list box of a visible menu moves its highlight (arrow keys, mouse)
MainMenuHighlight(index) ==
    /\ running
    /\ "main_menu" \in shown
    /\ main_menu_selection # index
    /\ main_menu_selection' = index
    /\ UNCHANGED << active_context, shown, in_game_menu_selection, running,
                    calls, raised, last_op, last_key, prev_context,
                    prev_shown, reported_option, class_vars, qa_vars >>

InGameMenuHighlight(index) ==
    /\ running
    /\ "in_game_menu" \in shown
    /\ in_game_menu_selection # index
    /\ in_game_menu_selection' = index
    /\ UNCHANGED << active_context, shown, main_menu_selection, running,
                    calls, raised, last_op, last_key, prev_context,
                    prev_shown, reported_option, class_vars, qa_vars >>

Next ==
    \/ \E key \in Keys : MainMenuKeystroke(key)
    \/ \E key \in Keys : MainHelpMenuKeystroke(key)
    \/ \E key \in Keys : PrimaryInterfaceKeystroke(key)
    \/ \E key \in Keys : InGameMenuKeystroke(key)
    \/ \E key \in Keys : MapLegendKeystroke(key)
    \/ \E key \in Keys : CommandLegendKeystroke(key)
    \/ \E key \in Keys : GameWonKeystroke(key)
    \/ \E key \in Keys : GameLostKeystroke(key)
    \/ \E key \in Keys : QuestionAndAnswerKeystroke(key)
    \/ \E name \in ContextSpecifiers \cup { UnknownSpecifier } :
          SetActiveContext(name)
    \/ \E game_status \in GameStatuses : Update(game_status)
    \/ \E index \in 1..Len(MainMenuOptions) : MainMenuHighlight(index)
    \/ \E index \in 1..Len(InGameMenuOptions) : InGameMenuHighlight(index)

Spec == Init /\ [][Next]_vars

\* what a user does at the keyboard: keys reach the controller while one of
\* the six contexts a handler activates is active, and the list box of a
\* visible menu moves its highlight; the model notifies the controller
NextKeys ==
    \/ \E key \in Keys : MainMenuKeystroke(key)
    \/ \E key \in Keys : MainHelpMenuKeystroke(key)
    \/ \E key \in Keys : PrimaryInterfaceKeystroke(key)
    \/ \E key \in Keys : InGameMenuKeystroke(key)
    \/ \E key \in Keys : MapLegendKeystroke(key)
    \/ \E key \in Keys : CommandLegendKeystroke(key)
    \/ \E game_status \in GameStatuses : Update(game_status)
    \/ \E index \in 1..Len(MainMenuOptions) : MainMenuHighlight(index)
    \/ \E index \in 1..Len(InGameMenuOptions) : InGameMenuHighlight(index)

\* the controller driven by keystrokes and notifications only:
\* set_active_context is called by the handlers alone
SpecKeys == Init /\ [][NextKeys]_vars

\* variant: the view's in-game menu also offers "Return to Main Menu"
ViewInGameMenuOptions_with_return == InGameMenuOptions

\* TextTriviaMazeView.__create_in_game_menu: the options the in-game menu
\* of the view is built from
ViewInGameMenuOptions ==
    << BackToGameOption, DisplayMapLegendOption, DisplayCommandsOption,
       QuitGameInGameOption >>

\* the list box of the view's in-game menu moves its highlight to one of
\* the options it holds
OfferedInGameMenuHighlight(index) ==
    /\ \E n \in 1..Len(ViewInGameMenuOptions) :
          ViewInGameMenuOptions[n] = InGameMenuOptions[index]
    /\ InGameMenuHighlight(index)

\* what a user does at the keyboard when the in-game menu holds the
\* options of the view only
NextView ==
    \/ \E key \in Keys : MainMenuKeystroke(key)
    \/ \E key \in Keys : MainHelpMenuKeystroke(key)
    \/ \E key \in Keys : PrimaryInterfaceKeystroke(key)
    \/ \E key \in Keys : InGameMenuKeystroke(key)
    \/ \E key \in Keys : MapLegendKeystroke(key)
    \/ \E key \in Keys : CommandLegendKeystroke(key)
    \/ \E game_status \in GameStatuses : Update(game_status)
    \/ \E index \in 1..Len(MainMenuOptions) : MainMenuHighlight(index)
    \/ \E index \in 1..Len(InGameMenuOptions) :
          OfferedInGameMenuHighlight(index)

\* the controller driven by keystrokes, with the in-game menu of the view
SpecView == Init /\ [][NextView]_vars

\* a class statement with base b and body own is executed: the class is
\* created unless __init_subclass__ raises
DefineClass(b, own) ==
    /\ Len(classes) < Len(ModuleClasses) + MaxNewClasses
    /\ raised' = init_subclass_raises(classes, b, own)
    /\ classes' = IF raised' THEN classes
                  ELSE Append(classes, Class("NewCommandContext", b, own))
    /\ last_definition' = [base |-> b, own |-> own]
    /\ last_op' = "__init_subclass__"
    /\ UNCHANGED << controller_vars, qa_vars >>

NextDefine ==
    \E b \in 1..Len(classes), own \in ClassBodies : DefineClass(b, own)

\* the class statements alone
SpecDefine == Init /\ [][NextDefine]_vars

\* the texts of the options of a multiple-choice question
OptionTexts == { << "a" >>, << "A" >>, << "b" >>, << "c" >> }

\* the instances whose answers and hints are examined, with one question
\* and one category: true-or-false questions with the truth texts and the
\* short texts as correct answer; multiple-choice questions with every
\* choice of options, the correct answer one of the option texts or a text
\* that is no option; short-answer questions with every text
Instances ==
    { TrueOrFalseQA_init(<< "Q", "?" >>, correct_answer, << "C" >>,
                         << "T","r","u","e" >>, << "F","a","l","s","e" >>) :
        correct_answer \in Texts(MaxAnswerLen) \cup TruthTexts }
    \cup
    { MultipleChoiceQA_init(<< "Q", "?" >>, correct_answer, << "C" >>,
                            option_1, option_2, option_3, option_4) :
        correct_answer \in OptionTexts \cup { << "d" >> },
        option_1 \in OptionTexts, option_2 \in OptionTexts,
        option_3 \in OptionTexts, option_4 \in OptionTexts }
    \cup
    { ShortAnswerQA_init(<< "Q", "?" >>, correct_answer, << "C" >>) :
        correct_answer \in Texts(MaxLen) }

\* the answers a user gives
UserAnswers == Texts(MaxAnswerLen) \cup TruthTexts \cup OptionTexts

\* one question has been constructed
InitQA ==
    /\ InitController
    /\ \E self \in Instances : objects = << self >>
    /\ invocation = NoInvocation
    /\ returned = NoText
    /\ sampled = << >>

\* objects[i].answer_is_correct(user_answer)
AnswerIsCorrect(i, user_answer) ==
    /\ returned' = answer_is_correct(objects[i], user_answer)
    /\ raised' = FALSE
    /\ invocation' = [ self |-> i, argument |-> user_answer ]
    /\ sampled' = << >>
    /\ last_op' = "answer_is_correct"
    /\ UNCHANGED << objects, controller_vars, class_vars >>

\* objects[i].get_hint() of a multiple-choice question
MultipleChoiceGetHint(i) ==
    /\ objects[i].class = "MultipleChoiceQA"
    /\ raised' = MultipleChoiceQA_get_hint_raises(objects[i])
    /\ returned' = IF raised' THEN NoText
                   ELSE MultipleChoiceQA_get_hint(objects[i])
    /\ invocation' = [ self |-> i, argument |-> NoText ]
    /\ sampled' = << >>
    /\ last_op' = "get_hint"
    /\ UNCHANGED << objects, controller_vars, class_vars >>

\* objects[i].get_hint() of a short-answer question, random.sample
\* returning samples
ShortAnswerGetHint(i, samples) ==
    /\ objects[i].class = "ShortAnswerQA"
    /\ samples \in Samples(objects[i])
    /\ returned' = ShortAnswerQA_get_hint(objects[i], samples)
    /\ raised' = FALSE
    /\ invocation' = [ self |-> i, argument |-> NoText ]
    /\ sampled' = samples
    /\ last_op' = "get_hint"
    /\ UNCHANGED << objects, controller_vars, class_vars >>

NextQA ==
    \/ \E i \in 1..Len(objects), user_answer \in UserAnswers :
          AnswerIsCorrect(i, user_answer)
    \/ \E i \in 1..Len(objects) : MultipleChoiceGetHint(i)
    \/ \E i \in 1..Len(objects) :
          \E samples \in Samples(objects[i]) : ShortAnswerGetHint(i, samples)

\* the methods of one question, called in any order
SpecQA == InitQA /\ [][NextQA]_vars

\* the texts of the fields of the instances that are compared
FieldTexts == { << "a" >>, << "b" >> }

\* the instances that are compared: every field that takes part in a
\* __hash__ varies, and so does an option of a true-or-false question
ComparedInstances ==
    { TrueOrFalseQA_init(question, correct_answer, category,
                         option_1, << "F","a","l","s","e" >>) :
        question \in FieldTexts, correct_answer \in FieldTexts,
        category \in FieldTexts, option_1 \in FieldTexts }
    \cup
    { MultipleChoiceQA_init(question, correct_answer, category,
                            option_1, option_2, << "c" >>, << "d" >>) :
        question \in FieldTexts, correct_answer \in FieldTexts,
        category \in FieldTexts, option_1 \in FieldTexts,
        option_2 \in FieldTexts }
    \cup
    { ShortAnswerQA_init(question, correct_answer, category) :
        question \in FieldTexts, correct_answer \in FieldTexts,
        category \in FieldTexts }

\* two questions have been constructed
InitIdentity ==
    /\ InitController
    /\ \E a \in ComparedInstances, b \in ComparedInstances :
          objects = << a, b >>
    /\ invocation = NoInvocation
    /\ returned = NoText
    /\ sampled = << >>

\* objects[i] == objects[j]
Equal(i, j) ==
    /\ returned' = object_eq(i, j)
    /\ raised' = FALSE
    /\ invocation' = [ self |-> i, argument |-> j ]
    /\ sampled' = << >>
    /\ last_op' = "__eq__"
    /\ UNCHANGED << objects, controller_vars, class_vars >>

\* hash(objects[i])
Hash(i) ==
    /\ returned' = hash(objects[i])
    /\ raised' = FALSE
    /\ invocation' = [ self |-> i, argument |-> NoText ]
    /\ sampled' = << >>
    /\ last_op' = "__hash__"
    /\ UNCHANGED << objects, controller_vars, class_vars >>

NextIdentity ==
    \/ \E i \in 1..Len(objects), j \in 1..Len(objects) : Equal(i, j)
    \/ \E i \in 1..Len(objects) : Hash(i)

\* two questions, compared and hashed in any order
SpecIdentity == InitIdentity /\ [][NextIdentity]_vars

TypeOK ==
    /\ active_context \in Contexts
    /\ shown \subseteq Windows
    /\ main_menu_selection \in 1..Len(MainMenuOptions)
    /\ in_game_menu_selection \in 1..Len(InGameMenuOptions)
    /\ running \in BOOLEAN
    /\ raised \in BOOLEAN

---------------------------------------------------------------------------
(* Properties                                                              *)

\* the last operation was process_keystroke(key), handled by context ctx
Processed(ctx, key) ==
    /\ last_op = "process_keystroke"
    /\ prev_context = ctx
    /\ last_key = key

\* positions in cs of the calls to the model and to the view
ModelCalls(cs) == { i \in 1..Len(cs) : cs[i].target = "model" }
ViewCalls(cs)  == { i \in 1..Len(cs) : cs[i].target = "view" }

\* number of calls of view operation o in cs
CountView(cs, o) ==
    Cardinality({ i \in 1..Len(cs) : cs[i].target = "view" /\ cs[i].op = o })

\* number of calls of model operation o with arguments a in cs
CountModel(cs, o, a) ==
    Cardinality({ i \in 1..Len(cs) :
                    cs[i].target = "model" /\ cs[i].op = o /\ cs[i].args = a })

\* the keys a context's command table binds
TriggerKeys(ctx) == TableKeys(COMMANDS(ctx))

\* positions in cs of the view call o
ViewPositions(cs, o) ==
    { i \in 1..Len(cs) : cs[i].target = "view" /\ cs[i].op = o }

\* C1: in each of the nine contexts, a key that is not among the context's
\* trigger keys causes no Model call and no View call, raises nothing and
\* leaves the active context (and what the view shows) as it was.
C1_UnboundKeyIgnored ==
    (last_op = "process_keystroke" /\ last_key \notin TriggerKeys(prev_context))
    => /\ ModelCalls(calls) = {}
       /\ ViewCalls(calls) = {}
       /\ ~raised
       /\ active_context = prev_context
       /\ shown = prev_shown

\* "H" instead of "h" was typed on the game screen
C1_Witness ==
    /\ Processed(PrimaryInterfaceCommandContext, "H")
    /\ calls = << >>

\* C2: right after construction, before any key is processed, the active
\* context is the main menu context.
C2_InitialContextIsMainMenu ==
    last_op = "__init__" => active_context = MainMenuCommandContext

C2_Witness ==
    /\ last_op = "__init__"
    /\ active_context = MainMenuCommandContext
    /\ "main_menu" \in shown

\* C3: Return in the main menu with "Start game" highlighted calls
\* hide_main_menu exactly once, calls nothing on the Model, and leaves the
\* primary interface context active.
C3_StartGame ==
    (Processed(MainMenuCommandContext, "Return")
        /\ reported_option = StartGameOption)
    => /\ CountView(calls, "hide_main_menu") = 1
       /\ ModelCalls(calls) = {}
       /\ active_context = PrimaryInterfaceCommandContext

C3_Witness ==
    /\ Processed(MainMenuCommandContext, "Return")
    /\ reported_option = StartGameOption
    /\ "main_menu" \in prev_shown
    /\ "main_menu" \notin shown

\* C4: Escape on the game screen calls show_in_game_menu and, after that,
\* makes the in-game menu context active; the Model is not called.
C4_EscapeShowsInGameMenu ==
    Processed(PrimaryInterfaceCommandContext, "Escape")
    => /\ \E i, j \in 1..Len(calls) :
             /\ i < j
             /\ calls[i] = ViewCall("show_in_game_menu")
             /\ calls[j] = SetContext("in_game_menu")
       /\ ModelCalls(calls) = {}
       /\ active_context = InGameMenuCommandContext

C4_Witness ==
    /\ Processed(PrimaryInterfaceCommandContext, "Escape")
    /\ "in_game_menu" \in shown
    /\ "in_game_menu" \notin prev_shown

\* the Model call each of the six game-screen keys stands for
C5_Expected ==
    [ Left  |-> ModelCall("move_adventurer", << "west" >>),
      Right |-> ModelCall("move_adventurer", << "east" >>),
      Up    |-> ModelCall("move_adventurer", << "north" >>),
      Down  |-> ModelCall("move_adventurer", << "south" >>),
      h     |-> ModelCall("use_item", << "healing potion" >>),
      v     |-> ModelCall("use_item", << "vision potion" >>) ]

\* C5: on the game screen Left/Right/Up/Down cause exactly one
\* move_adventurer call with west/east/north/south, h exactly one
\* use_item("healing potion") and v exactly one use_item("vision potion");
\* no View call is made and the game screen context stays active.
C5_MovementAndItems ==
    \A key \in DOMAIN C5_Expected :
        Processed(PrimaryInterfaceCommandContext, key)
        => /\ Cardinality(ModelCalls(calls)) = 1
           /\ \A i \in ModelCalls(calls) : calls[i] = C5_Expected[key]
           /\ ViewCalls(calls) = {}
           /\ active_context = PrimaryInterfaceCommandContext

C5_Witness ==
    /\ Processed(PrimaryInterfaceCommandContext, "Left")
    /\ calls = << ModelCall("move_adventurer", << "west" >>) >>

C7_BackToGame ==
    (Processed(InGameMenuCommandContext, "Return")
        /\ reported_option = BackToGameOption)
    => /\ ViewPositions(calls, "hide_in_game_menu") # {}
       /\ ModelCalls(calls) = {}
       /\ active_context = PrimaryInterfaceCommandContext

C7_Witness ==
    /\ Processed(InGameMenuCommandContext, "Return")
    /\ reported_option = BackToGameOption
    /\ "in_game_menu" \in prev_shown
    /\ shown = {}

\* C8: Return in the in-game menu with "Display Map Legend" highlighted
\* shows the map legend, does not hide the in-game menu, and makes the map
\* legend context active.
C8_DisplayMapLegend ==
    (Processed(InGameMenuCommandContext, "Return")
        /\ reported_option = DisplayMapLegendOption)
    => /\ ViewPositions(calls, "show_map_legend_menu") # {}
       /\ ViewPositions(calls, "hide_in_game_menu") = {}
       /\ active_context = MapLegendCommandContext

C8_Witness ==
    /\ Processed(InGameMenuCommandContext, "Return")
    /\ reported_option = DisplayMapLegendOption
    /\ shown = { "in_game_menu", "map_legend_menu" }

\* C9: Return in the in-game menu with "Display Commands" highlighted passes
\* show_command_legend_menu two sequences of the same length in which
\* position i holds the trigger key and the description of the i-th entry of
\* the game screen's command table, every entry once and in table order,
\* with two columns; the command legend context is then active.
C9_DisplayCommands ==
    (Processed(InGameMenuCommandContext, "Return")
        /\ reported_option = DisplayCommandsOption)
    => /\ Cardinality(ViewPositions(calls, "show_command_legend_menu")) = 1
       /\ \A p \in ViewPositions(calls, "show_command_legend_menu") :
            LET symbols      == calls[p].args[1]
                descriptions == calls[p].args[2]
                num_cols     == calls[p].args[3]
            IN  /\ Len(symbols) = Len(descriptions)
                /\ Len(symbols) = Len(PrimaryInterfaceCOMMANDS)
                /\ \A i \in 1..Len(symbols) :
                     /\ symbols[i] = PrimaryInterfaceCOMMANDS[i].key
                     /\ descriptions[i] = PrimaryInterfaceCOMMANDS[i].description
                /\ num_cols = 2
       /\ active_context = CommandLegendCommandContext

C9_Witness ==
    /\ Processed(InGameMenuCommandContext, "Return")
    /\ reported_option = DisplayCommandsOption
    /\ "command_legend_menu" \in shown
    /\ Len(calls) = 2
    /\ calls[1].args[1][7] = "Escape"
    /\ calls[1].args[2][7] = "Show in-game help menu"

\* C10: Return in the main menu with "Help" highlighted shows the main help
\* menu and makes the main help menu context active.
C10_Help ==
    (Processed(MainMenuCommandContext, "Return")
        /\ reported_option = HelpOption)
    => /\ ViewPositions(calls, "show_main_help_menu") # {}
       /\ active_context = MainHelpMenuCommandContext

C10_Witness ==
    /\ Processed(MainMenuCommandContext, "Return")
    /\ reported_option = HelpOption
    /\ shown = { "main_menu", "main_help_menu" }

\* for each dismissible context: the pop-up it hides, the other pop-ups'
\* hide operations, and the context it hands over to
C11_Dismissible ==
    [ MainHelpMenuCommandContext |->
        [hide |-> "hide_main_help_menu", parent |-> MainMenuCommandContext],
      MapLegendCommandContext |->
        [hide |-> "hide_map_legend_menu", parent |-> InGameMenuCommandContext],
      CommandLegendCommandContext |->
        [hide |-> "hide_command_legend_menu",
         parent |-> InGameMenuCommandContext],
      GameWonCommandContext |->
        [hide |-> "hide_game_won_menu", parent |-> MainMenuCommandContext],
      GameLostCommandContext |->
        [hide |-> "hide_game_lost_menu", parent |-> MainMenuCommandContext] ]

\* C11: in each of the five dismissible contexts Return hides that
\* context's own pop-up and nothing else, calls nothing on the Model, and
\* activates the fixed parent: main menu for the help, game-won and
\* game-lost pop-ups, in-game menu for the two legends.
C11_DismissReturnsToParent ==
    \A ctx \in DOMAIN C11_Dismissible :
        Processed(ctx, "Return")
        => /\ Cardinality(ViewCalls(calls)) = 1
           /\ CountView(calls, C11_Dismissible[ctx].hide) = 1
           /\ ModelCalls(calls) = {}
           /\ active_context = C11_Dismissible[ctx].parent

\* the map legend, opened from the in-game menu, has just been dismissed
C11_Witness ==
    /\ Processed(MapLegendCommandContext, "Return")
    /\ prev_shown = { "in_game_menu", "map_legend_menu" }
    /\ shown = { "in_game_menu" }
    /\ active_context = InGameMenuCommandContext

\* C12: Return on the quit option ("Quit game" in the main menu, "Quit Game"
\* in the in-game menu) calls quit_entire_game exactly once, calls nothing
\* on the Model and does not change the active context.
C12_Quit ==
    (\/ Processed(MainMenuCommandContext, "Return")
          /\ reported_option = QuitGameOption
     \/ Processed(InGameMenuCommandContext, "Return")
          /\ reported_option = QuitGameInGameOption)
    => /\ CountView(calls, "quit_entire_game") = 1
       /\ ModelCalls(calls) = {}
       /\ \A i \in 1..Len(calls) : calls[i].target # "controller"
       /\ active_context = prev_context

C12_Witness ==
    /\ Processed(InGameMenuCommandContext, "Return")
    /\ reported_option = QuitGameInGameOption
    /\ ~running

\* C13: in the question-and-answer context k causes exactly one
\* use_item("magic key") and s exactly one use_item("suggestion potion");
\* neither calls the View nor changes the active context.
C13_QuestionItems ==
    /\ Processed(QuestionAndAnswerCommandContext, "k")
       => /\ calls = << ModelCall("use_item", << "magic key" >>) >>
          /\ active_context = QuestionAndAnswerCommandContext
    /\ Processed(QuestionAndAnswerCommandContext, "s")
       => /\ calls = << ModelCall("use_item", << "suggestion potion" >>) >>
          /\ active_context = QuestionAndAnswerCommandContext

C13_Witness ==
    /\ Processed(QuestionAndAnswerCommandContext, "k")
    /\ CountModel(calls, "use_item", << "magic key" >>) = 1
    /\ ViewCalls(calls) = {}

\* C14: Return in the question-and-answer context submits the entered answer
\* for judging: the answer is read and checked against the correct answer.
C14_ReturnSubmitsAnswer ==
    Processed(QuestionAndAnswerCommandContext, "Return")
    => \E i \in 1..Len(calls) : calls[i].op = "answer_is_correct"

\* C15: set_active_context with a name outside the nine context names
\* raises an error instead of returning normally.
C15_UnknownSpecifierRaises ==
    (last_op = "set_active_context" /\ last_key \notin ContextSpecifiers)
    => raised

\* C16: when the model calls update() and the game has just been won (lost),
\* the controller activates the game-won (game-lost) context and tells the
\* view to show that pop-up; when the status is unchanged update() does
\* nothing.
C16_UpdateShowsOutcome ==
    /\ (last_op = "update" /\ last_key = "win")
       => /\ active_context = GameWonCommandContext
          /\ CountView(calls, "show_game_won_menu") = 1
    /\ (last_op = "update" /\ last_key = "lose")
       => /\ active_context = GameLostCommandContext
          /\ CountView(calls, "show_game_lost_menu") = 1
    /\ (last_op = "update" /\ last_key = "unchanged")
       => /\ calls = << >>
          /\ active_context = prev_context

\* the context that is active after ctx has processed key with the given
\* highlights
ContextAfter(ctx, key, main_selection, in_game_selection) ==
    Run([ active |-> ctx, shown |-> shown,
          main_menu_selection |-> main_selection,
          in_game_menu_selection |-> in_game_selection,
          running |-> running ],
        process_keystroke(ctx, key, main_selection, in_game_selection).steps
       ).active

\* C17: no context is terminal: whichever context is active, some key
\* (in a menu, together with some highlighted option) moves the active
\* context to a different one.
C17_NoContextTerminal ==
    \E key \in Keys :
      \E m \in 1..Len(MainMenuOptions), g \in 1..Len(InGameMenuOptions) :
        ContextAfter(active_context, key, m, g) # active_context

\* the context instance each specifier stands for
C18_InstanceOf ==
    [ main_menu           |-> MainMenuCommandContext,
      main_help_menu      |-> MainHelpMenuCommandContext,
      primary_interface   |-> PrimaryInterfaceCommandContext,
      in_game_menu        |-> InGameMenuCommandContext,
      map_legend_menu     |-> MapLegendCommandContext,
      command_legend_menu |-> CommandLegendCommandContext,
      game_won_menu       |-> GameWonCommandContext,
      game_lost_menu      |-> GameLostCommandContext,
      question_and_answer |-> QuestionAndAnswerCommandContext ]

\* positions in cs of the calls of set_active_context
SetContextPositions(cs) ==
    { i \in 1..Len(cs) : cs[i].target = "controller" }

\* C18: the active context is always one of the nine instances created at
\* construction; set_active_context(name) with a name of the closed set
\* activates the instance of that name's kind, distinct names selecting
\* distinct instances; and process_keystroke changes the active context
\* only through a set_active_context call, to the instance its last such
\* call names.
C18_ActiveContextIsOneOfNine ==
    /\ active_context \in Contexts
    /\ (last_op = "set_active_context" /\ last_key \in ContextSpecifiers)
       => active_context = C18_InstanceOf[last_key]
    /\ \A a, b \in ContextSpecifiers :
         a # b => set_active_context(active_context, a)
                    # set_active_context(active_context, b)
    /\ last_op = "process_keystroke"
       => IF SetContextPositions(calls) = {}
          THEN active_context = prev_context
          ELSE LET p == CHOOSE i \in SetContextPositions(calls) :
                           \A j \in SetContextPositions(calls) : j <= i
               IN  /\ calls[p].args[1] \in ContextSpecifiers
                   /\ active_context = C18_InstanceOf[calls[p].args[1]]

\* set_active_context("game_lost_menu") was called from outside while the
\* in-game menu was active
C18_Witness ==
    /\ last_op = "set_active_context"
    /\ last_key = "game_lost_menu"
    /\ prev_context = InGameMenuCommandContext
    /\ active_context = GameLostCommandContext

\* C19: constructing the controller registers it with the model:
\* register_observer is called with the controller exactly once.
C19_RegistersObserver ==
    last_op = "__init__"
    => CountModel(calls, "register_observer", << "self" >>) = 1

\* C20 as stated: every context type accepted at definition time has a
\* non-empty command table, and a definition that leaves the type without a
\* table, or with an empty one, is rejected with an error.
C20_AcceptedTypesHaveNonEmptyTable ==
    /\ \A i \in 2..Len(classes) :
         LookupCOMMANDS(classes, classes[i].base, classes[i].own).table # << >>
    /\ (last_op = "__init_subclass__"
          /\ LookupCOMMANDS(classes, last_definition.base,
                            last_definition.own).table = << >>)
       => raised

\* the classes from which class i inherits, itself included
RECURSIVE Lineage(_, _)
Lineage(cls, i) == IF i = 0 THEN {} ELSE { i } \cup Lineage(cls, cls[i].base)

\* C20, amended: a context type is rejected with an error at definition time
\* exactly when neither its body nor any class it inherits from declares
\* COMMANDS; every accepted context type therefore has a COMMANDS attribute,
\* its own or an inherited one, which may be an empty table.
C20_RejectedIffNoCommandsAttribute ==
    /\ \A i \in 2..Len(classes) :
         \E j \in Lineage(classes, i) : classes[j].own.declared
    /\ last_op = "__init_subclass__"
       => (raised <=>
             /\ ~ last_definition.own.declared
             /\ \A j \in Lineage(classes, last_definition.base) :
                  ~ classes[j].own.declared)

\* a context class whose body is COMMANDS = {} has been accepted
C20_Witness ==
    /\ last_op = "__init_subclass__"
    /\ ~raised
    /\ last_definition.own = Declares(<< >>)
    /\ classes[Len(classes)].own = Declares(<< >>)
    /\ Len(classes) > Len(ModuleClasses)

Receiver == objects[invocation.self]

\* s and t have the same length and, at every position, the same character
\* or the two cases of one letter
SameIgnoringCase(s, t) ==
    /\ Len(s) = Len(t)
    /\ \A i \in 1..Len(s) :
          \/ s[i] = t[i]
          \/ \E n \in 1..Len(UpperCaseLetters) :
                { s[i], t[i] } = { UpperCaseLetters[n], LowerCaseLetters[n] }

\* C22: for every variant and every pair of texts (user_answer,
\* correct_answer), the empty and the blank ones included, answer_is_correct
\* returns a boolean without failing, and returns true exactly when the two
\* texts are equal up to the case of their letters (nothing is trimmed, no
\* part of a text is enough).
C22_AnswerIsCorrect ==
    last_op = "answer_is_correct" =>
        /\ ~ raised
        /\ returned \in BOOLEAN
        /\ returned <=>
              SameIgnoringCase(invocation.argument, Receiver.correct_answer)

\* a short-answer question accepts an answer that differs from the correct
\* one in case only
C22_Witness ==
    /\ last_op = "answer_is_correct"
    /\ Receiver.class = "ShortAnswerQA"
    /\ invocation.argument # Receiver.correct_answer
    /\ invocation.argument # << >>
    /\ returned = TRUE

\* the last call was get_hint of a short-answer question
ShortAnswerHinted ==
    /\ last_op = "get_hint"
    /\ Receiver.class = "ShortAnswerQA"

\* n / 2 rounded up: the least k with 2 * k >= n
HalfRoundedUp(n) == CHOOSE k \in 0..n : 2 * k >= n /\ 2 * (k - 1) < n

\* the elements of a list
Elements(s) == { s[i] : i \in 1..Len(s) }

\* the numbers of the set P in ascending order
Ascending(P) ==
    CHOOSE f \in [1..Cardinality(P) -> P] :
        \A i, j \in 1..Cardinality(P) : i < j => f[i] < f[j]

\* the characters of a text that are not whitespace, in order
Letters(s) == SelectSeq(s, LAMBDA ch : ch \notin Whitespace)

\* the hint without its "Hint: "
HintBody == SubSeq(returned, Len(ShortAnswerHintPrefix) + 1, Len(returned))

\* the letters of the words from word w on at the sampled positions, each
\* word's in ascending order of position
RECURSIVE RevealedLetters(_, _, _)
RevealedLetters(words, samples, w) ==
    IF w > Len(words) THEN << >>
    ELSE [ n \in 1..Len(samples[w]) |->
             words[w][Ascending(Elements(samples[w]))[n] + 1] ]
            \o RevealedLetters(words, samples, w + 1)

\* C23: every call of get_hint of a short-answer question reveals, of each
\* whitespace-separated word of correct_answer of length L, exactly L/2
\* rounded up characters, from distinct positions of the word, in ascending
\* order of position; and any set of that many positions can be the one
\* chosen.
C23_ShortAnswerHintReveals ==
    ShortAnswerHinted =>
        LET words == split(Receiver.correct_answer)
        IN  /\ Len(sampled) = Len(words)
            /\ \A w \in 1..Len(words) :
                  /\ Len(sampled[w]) = HalfRoundedUp(Len(words[w]))
                  /\ Cardinality(Elements(sampled[w])) = Len(sampled[w])
                  /\ Elements(sampled[w]) \subseteq 0..(Len(words[w]) - 1)
                  /\ { Elements(samples[w]) : samples \in Samples(Receiver) }
                        = { P \in SUBSET (0..(Len(words[w]) - 1)) :
                              Cardinality(P) = HalfRoundedUp(Len(words[w])) }
            /\ SubSeq(returned, 1, Len(ShortAnswerHintPrefix))
                  = ShortAnswerHintPrefix
            /\ Letters(HintBody) = RevealedLetters(words, sampled, 1)

\* a hint of a word of three letters for which the last and the first
\* position were drawn, in that order
C23_Witness ==
    /\ ShortAnswerHinted
    /\ Receiver.correct_answer = << "a", "A", "a" >>
    /\ sampled = << << 2, 0 >> >>
    /\ Letters(HintBody) = << "a", "a" >>

\* the positions in a text of its characters that are not whitespace
LetterPositions(s) ==
    Ascending({ i \in 1..Len(s) : s[i] \notin Whitespace })

\* the revealed characters from word w on, in the order they are emitted:
\* the word and the position in the word of each
RECURSIVE Revealed(_, _, _)
Revealed(words, samples, w) ==
    IF w > Len(words) THEN << >>
    ELSE [ n \in 1..Len(samples[w]) |->
             [ word |-> w, index |-> Ascending(Elements(samples[w]))[n] ] ]
            \o Revealed(words, samples, w + 1)

\* number of blanks the hint has between its n-th and its next letter
BlanksAfter(n) ==
    LetterPositions(HintBody)[n + 1] - LetterPositions(HintBody)[n] - 1

\* C24 as stated: in every hint of a short-answer question two revealed
\* characters of a word follow each other directly when their positions are
\* consecutive and are separated by exactly one space when they are not, and
\* the revealed characters of a word are separated from those of the next
\* word by a single space.
C24_OneSpaceBetweenWords ==
    ShortAnswerHinted =>
        LET r == Revealed(split(Receiver.correct_answer), sampled, 1)
        IN  \A n \in 1..(Len(r) - 1) :
                BlanksAfter(n) =
                    IF r[n].word = r[n + 1].word
                          /\ r[n + 1].index = r[n].index + 1
                    THEN 0 ELSE 1

\* C24, amended: within a word as stated; the revealed characters of a word
\* are separated from those of the next word by one space when the first
\* revealed character of the next word is its first character, and by two
\* spaces when it is not.
C24_SpacesMarkGaps ==
    ShortAnswerHinted =>
        LET r == Revealed(split(Receiver.correct_answer), sampled, 1)
        IN  \A n \in 1..(Len(r) - 1) :
                BlanksAfter(n) =
                    IF r[n].word = r[n + 1].word
                    THEN (IF r[n + 1].index = r[n].index + 1 THEN 0 ELSE 1)
                    ELSE (IF r[n + 1].index = 0 THEN 1 ELSE 2)

\* the hint "a  A" of "a aA": the second word's second character follows
\* the first word's after two spaces
C24_Witness ==
    /\ ShortAnswerHinted
    /\ Receiver.correct_answer = << "a", " ", "a", "A" >>
    /\ sampled = << << 0 >>, << 1 >> >>
    /\ HintBody = << "a", " ", " ", "A" >>

\* the last call was get_hint of a multiple-choice question
MultipleChoiceHinted ==
    /\ last_op = "get_hint"
    /\ Receiver.class = "MultipleChoiceQA"

\* the options of a multiple-choice question in declared order
Options(self) ==
    << self.option_1, self.option_2, self.option_3, self.option_4 >>

\* the lines of a text: each ends with a line feed, which is left out
RECURSIVE Lines(_)
Lines(s) ==
    IF s = << >> THEN << >>
    ELSE LET n == CHOOSE n \in 1..(Len(s) + 1) :
                      /\ \A i \in 1..(n - 1) : s[i] # "\n"
                      /\ n = Len(s) + 1 \/ s[n] = "\n"
         IN  << SubSeq(s, 1, n - 1) >> \o Lines(SubSeq(s, n + 1, Len(s)))

\* the four options are pairwise distinct and one is the correct answer
WellFormedChoices(self) ==
    /\ \A i, j \in 1..4 : i # j => Options(self)[i] # Options(self)[j]
    /\ \E i \in 1..4 : Options(self)[i] = self.correct_answer

\* C25: for every multiple-choice question with four distinct options of
\* which one is correct_answer, get_hint names exactly the first two, in
\* declared order, of the three other options; it names neither the third
\* of them nor the correct answer, and draws nothing at random, so that the
\* text is the same at every call.
C25_MultipleChoiceHint ==
    (MultipleChoiceHinted /\ WellFormedChoices(Receiver)) =>
        LET answer == CHOOSE i \in 1..4 :
                          Options(Receiver)[i] = Receiver.correct_answer
            others == Ascending((1..4) \ { answer })
            named  == { Options(Receiver)[others[1]],
                        Options(Receiver)[others[2]] }
        IN  /\ ~ raised
            /\ sampled = << >>
            /\ Lines(returned) =
                  << SubSeq(MultipleChoiceHintHeader, 1,
                            Len(MultipleChoiceHintHeader) - 1),
                     << "-", " " >> \o Options(Receiver)[others[1]],
                     << "-", " " >> \o Options(Receiver)[others[2]] >>
            /\ Options(Receiver)[others[3]] \notin named
            /\ Receiver.correct_answer \notin named

\* the hint of a question whose second option is the correct one names the
\* first and the third
C25_Witness ==
    /\ MultipleChoiceHinted
    /\ Options(Receiver) = << << "a" >>, << "b" >>, << "c" >>, << "A" >> >>
    /\ Receiver.correct_answer = << "b" >>
    /\ Lines(returned)[2] = << "-", " ", "a" >>
    /\ Lines(returned)[3] = << "-", " ", "c" >>

\* the fields the claim declares to make up the identity of a question
IdentityFields(self) ==
    CASE self.class = "TrueOrFalseQA"
           -> << self.question, self.correct_answer, self.category,
                 self.is_true >>
      [] self.class = "MultipleChoiceQA"
           -> << self.question, self.correct_answer, self.category,
                 self.option_1, self.option_2, self.option_3,
                 self.option_4 >>
      [] self.class = "ShortAnswerQA"
           -> << self.question, self.correct_answer, self.category >>

\* C26: two questions of the same variant are equal exactly when all their
\* identity fields agree (question, correct_answer, category; is_true of a
\* true-or-false question; option_1..option_4 in order of a multiple-choice
\* question): two instances with the same text in these fields are equal.
C26_EqualIffFieldsAgree ==
    (last_op = "__eq__"
        /\ Receiver.class = objects[invocation.argument].class) =>
        (returned <=> IdentityFields(Receiver)
                         = IdentityFields(objects[invocation.argument]))

\* C27: a hint never reveals the whole answer: for every short-answer
\* question with a non-empty correct_answer, every hint leaves at least one
\* non-whitespace character of correct_answer unrevealed (stated for the
\* answers that have such a character).
C27_HintLeavesSomethingHidden ==
    (ShortAnswerHinted /\ Receiver.correct_answer # << >>
        /\ Letters(Receiver.correct_answer) # << >>) =>
        Len(Letters(HintBody)) < Len(Letters(Receiver.correct_answer))

\* the text is one of the spellings of "true" in upper and lower case
SpellsTrue(s) ==
    /\ Len(s) = 4
    /\ s[1] \in { "t", "T" }
    /\ s[2] \in { "r", "R" }
    /\ s[3] \in { "u", "U" }
    /\ s[4] \in { "e", "E" }

\* C28: is_true of every true-or-false question is true exactly when
\* correct_answer is "true" in whatever case ("True" and "TRUE" give true,
\* "false" and any other text give false); it is set at construction and
\* no method call changes it.
C28_IsTrue ==
    \A i \in 1..Len(objects) :
        objects[i].class = "TrueOrFalseQA" =>
            /\ objects[i].is_true \in BOOLEAN
            /\ objects[i].is_true <=> SpellsTrue(objects[i].correct_answer)

\* a question whose correct answer is "TRUE" is true, also after one of its
\* methods was called
C28_Witness ==
    /\ last_op = "answer_is_correct"
    /\ Receiver.class = "TrueOrFalseQA"
    /\ Receiver.correct_answer = << "T","R","U","E" >>
    /\ Receiver.is_true

\* C29: along every sequence of keystrokes from the initial state what the
\* view shows matches the active context: the main menu is shown iff the
\* main menu or the main help context is active; the in-game menu iff the
\* in-game menu, the map legend or the command legend context is active;
\* the help, map legend and command legend pop-ups each iff their own
\* context is active; nothing is shown over the map while the game screen's
\* context is active.
C29_VisibilityMatchesContext ==
    /\ "main_menu" \in shown <=>
          active_context \in { MainMenuCommandContext,
                               MainHelpMenuCommandContext }
    /\ "in_game_menu" \in shown <=>
          active_context \in { InGameMenuCommandContext,
                               MapLegendCommandContext,
                               CommandLegendCommandContext }
    /\ "main_help_menu" \in shown <=>
          active_context = MainHelpMenuCommandContext
    /\ "map_legend_menu" \in shown <=>
          active_context = MapLegendCommandContext
    /\ "command_legend_menu" \in shown <=>
          active_context = CommandLegendCommandContext
    /\ active_context = PrimaryInterfaceCommandContext => shown = {}

\* the game screen right after "Start game", and nothing over the map
C29_Witness ==
    /\ Processed(MainMenuCommandContext, "Return")
    /\ active_context = PrimaryInterfaceCommandContext
    /\ prev_shown = { "main_menu" }
    /\ shown = {}

\* the last operation called the model's operation o
CallsModel(o) ==
    \E n \in 1..Len(calls) : calls[n].target = "model" /\ calls[n].op = o

\* the contexts of the menus and the pop-ups
MenuAndPopUpContexts ==
    Contexts \ { PrimaryInterfaceCommandContext,
                 QuestionAndAnswerCommandContext }

\* C30: Model.move_adventurer is called only by a keystroke processed while
\* the game screen's context is active, and Model.use_item only while that
\* context or the question-and-answer context is active: while a menu or a
\* pop-up context is active no keystroke moves the adventurer or uses an
\* item.
C30_ModelCallsOnlyInGame ==
    /\ CallsModel("move_adventurer") =>
          /\ last_op = "process_keystroke"
          /\ prev_context = PrimaryInterfaceCommandContext
    /\ CallsModel("use_item") =>
          /\ last_op = "process_keystroke"
          /\ prev_context \in { PrimaryInterfaceCommandContext,
                                QuestionAndAnswerCommandContext }
    /\ (last_op = "process_keystroke"
          /\ prev_context \in MenuAndPopUpContexts) =>
          /\ ~ CallsModel("move_adventurer")
          /\ ~ CallsModel("use_item")

\* an arrow key moves the adventurer on the game screen
C30_Witness ==
    /\ Processed(PrimaryInterfaceCommandContext, "Up")
    /\ CallsModel("move_adventurer")
    /\ active_context = PrimaryInterfaceCommandContext
    /\ running

\* C31: a keystroke is interpreted only by the context that was active when
\* it arrived and changes the active context at most once: the handler makes
\* at most one set_active_context call, as its last call, and the context
\* that call activates does not process the key again. The Return that
\* dismisses the main help leaves the main menu active without selecting in
\* it, and the Return that dismisses a legend leaves the in-game menu active
\* without selecting in it.
C31_KeyProcessedOnce ==
    last_op = "process_keystroke" =>
        /\ Cardinality(SetContextPositions(calls)) <= 1
        /\ SetContextPositions(calls) \subseteq { Len(calls) }
        /\ SetContextPositions(calls) # {} =>
              active_context =
                  C18_InstanceOf[calls[Len(calls)].args[1]]
        /\ SetContextPositions(calls) = {} => active_context = prev_context
        /\ (prev_context = MainHelpMenuCommandContext
              /\ last_key = "Return") =>
              /\ active_context = MainMenuCommandContext
              /\ reported_option = NoText
              /\ running
        /\ (prev_context \in { MapLegendCommandContext,
                               CommandLegendCommandContext }
              /\ last_key = "Return") =>
              /\ active_context = InGameMenuCommandContext
              /\ reported_option = NoText
              /\ running

\* the main help was dismissed while "Help" was still highlighted in the
\* main menu, and the main menu did not open the help again
C31_Witness ==
    /\ Processed(MainHelpMenuCommandContext, "Return")
    /\ main_menu_selection = 2
    /\ active_context = MainMenuCommandContext
    /\ "main_help_menu" \notin shown

\* the contexts no handler activates
ExternallyActivated ==
    { GameWonCommandContext, GameLostCommandContext,
      QuestionAndAnswerCommandContext }

\* C32: no process_keystroke call, whatever the view's selections, and no
\* update() call makes the game-won, the game-lost or the
\* question-and-answer context active: each of the three becomes active
\* only by a set_active_context call from outside the handlers.
C32_OnlyExternallyActivated ==
    [][ (active_context' \in ExternallyActivated
            /\ active_context' # active_context)
        => last_op' = "set_active_context" ]_vars

\* the model reports a won game on the game screen and the game screen's
\* context stays active
C32_Witness ==
    /\ last_op = "update"
    /\ last_key = "win"
    /\ prev_context = PrimaryInterfaceCommandContext
    /\ active_context = PrimaryInterfaceCommandContext
    /\ shown = {}

\* the contexts of a started game that keystrokes reach
InGameContexts ==
    { PrimaryInterfaceCommandContext, InGameMenuCommandContext,
      MapLegendCommandContext, CommandLegendCommandContext }

\* C33: when the in-game menu highlights only the options the view's menu
\* holds ("Back to Game", "Display Map Legend", "Display Commands", "Quit
\* Game"), then once the main menu has been left for the game screen no
\* sequence of keystrokes makes the main menu context active again, and
\* Model.reset() is never called.
C33_NoWayBackToMainMenu ==
    [][ /\ active_context \in InGameContexts
            => active_context' \in InGameContexts
        /\ ~ (\E n \in 1..Len(calls') :
                 calls'[n].target = "model" /\ calls'[n].op = "reset") ]_vars

\* the in-game menu was left by "Back to Game" for the game screen
C33_Witness ==
    /\ Processed(InGameMenuCommandContext, "Return")
    /\ reported_option = BackToGameOption
    /\ active_context = PrimaryInterfaceCommandContext
    /\ "main_menu" \notin shown

\* the hint names the text o on one of its two option lines
Names(hint, o) ==
    \E n \in { 2, 3 } :
        n <= Len(Lines(hint)) /\ Lines(hint)[n] = << "-", " " >> \o o

\* C34: for every multiple-choice question whose four options are pairwise
\* distinct and one of which is correct_answer, get_hint names no option as
\* "not the answer" that answer_is_correct accepts, an option that differs
\* from correct_answer in case only included.
C34_HintNamesNoAcceptedOption ==
    (MultipleChoiceHinted /\ WellFormedChoices(Receiver) /\ ~ raised) =>
        \A i \in 1..4 :
            Names(returned, Options(Receiver)[i]) =>
                ~ answer_is_correct(Receiver, Options(Receiver)[i])

\* the options of a multiple-choice question that are not correct_answer
Differing(self) == { i \in 1..4 : Options(self)[i] # self.correct_answer }

\* C35: get_hint of a multiple-choice question returns a hint only when at
\* least two of the four options differ from correct_answer: when three or
\* four options equal correct_answer it fails with an error and returns no
\* text, and when no option equals correct_answer it names option_1 and
\* option_2.
C35_HintNeedsTwoIncorrectOptions ==
    MultipleChoiceHinted =>
        /\ raised <=> Cardinality(Differing(Receiver)) < 2
        /\ raised => returned = NoText
        /\ ~ raised =>
              /\ Len(Lines(returned)) = 3
              /\ \E i \in Differing(Receiver) :
                    Names(returned, Options(Receiver)[i])
        /\ Cardinality(Differing(Receiver)) = 4 =>
              /\ Lines(returned)[2] = << "-", " " >> \o Receiver.option_1
              /\ Lines(returned)[3] = << "-", " " >> \o Receiver.option_2

\* the hint of a question three of whose options are the correct answer
\* fails
C35_Witness ==
    /\ MultipleChoiceHinted
    /\ Options(Receiver) = << << "a" >>, << "a" >>, << "a" >>, << "b" >> >>
    /\ Receiver.correct_answer = << "a" >>
    /\ raised

=============================================================================
